---- MODULE Spec2Model ----
(***************************************************************************)
(* The training driver pytorchyolo/train.py, run(): the epoch loop, the    *)
(* gradient-accumulating batch loop with its learning-rate schedule, the   *)
(* per-epoch checkpoint, the evaluation of both subsets with the           *)
(* best-checkpoint decision, and the two loops that follow evaluation.     *)
(* The collaborators (model, loss, _evaluate, the two logging sinks,       *)
(* torch.save) are observed through the calls the script makes on them.    *)
(* Learning rates are exact rationals <<numerator, denominator>>.          *)
(***************************************************************************)
EXTENDS Integers, Sequences, FiniteSets, TLC

VARIABLES
    args,                \* run()'s parameters: epochs, checkpoint_interval, evaluation_interval
    hyperparams,         \* model.hyperparams
    dataset,             \* number of images of the training and of the validation list
    seen0,               \* model.seen as load_model returned it
    pc,                  \* position of run(): "epoch", "train", "evaluate", "posteval", "done"
    error,               \* the exception that ended the run, NoError while it runs
    optimizer,           \* the local `optimizer`: "Adam", "SGD" or Unbound
    param_groups,        \* g['lr'] of every optimizer parameter group
    epoch,               \* loop variable of line 193 (= epochs once the loop is exhausted)
    batch_i,             \* loop variable of line 199
    subset,              \* loop variable of line 285
    best_mAP,            \* the local best_mAP
    evaluation_metrics,  \* the local evaluation_metrics, <<>> until first assigned
    seen,                \* model.seen
    params,              \* number of optimizer.step() updates applied to the parameters
    grads,               \* backward passes accumulated in .grad since the last zero_grad()
    forwardPasses,       \* calls of model(imgs) made by run() itself
    backwardPasses,      \* calls of loss.backward()
    batchLog,            \* one record per completed iteration of the training loop
    stepLog,             \* one record per optimizer.step()
    evalLog,             \* one record per call of _evaluate
    checkpoints,         \* one record per torch.save
    tbLog,               \* events received by the tensorboard Logger
    sacredLog            \* events received by ex.log_scalar

vars == <<args, hyperparams, dataset, seen0, pc, error, optimizer, param_groups,
          epoch, batch_i, subset, best_mAP, evaluation_metrics, seen, params,
          grads, forwardPasses, backwardPasses, batchLog, stepLog, evalLog,
          checkpoints, tbLog, sacredLog>>

config == <<args, hyperparams, dataset, seen0, optimizer>>

----------------------------------------------------------------------------
(* Bounds of the model *)

MaxEpochs == 2
MaxInterval == 2
MaxSubdivisions == 2
MaxBatch == 4
MaxTrain == 3
MaxValid == 1
MaxSeen == 1
MaxAP == 2
MaxBurnIn == 2
MaxThreshold == 2
MaxLrSteps == 2

----------------------------------------------------------------------------
(* Values *)

NoError == "none"
Unbound == "unbound"
NoMetrics == <<>>
Loss == "loss"

Min(a, b) == IF a < b THEN a ELSE b

Abs(a) == IF a < 0 THEN -a ELSE a

RECURSIVE GCD(_, _)
GCD(a, b) == IF b = 0 THEN a ELSE GCD(b, a % b)

\* a rational in lowest terms, denominator positive
Rat(n, d) == LET g == GCD(Abs(n), d) IN <<n \div g, d \div g>>

RatMul(x, y) == Rat(x[1] * y[1], x[2] * y[2])

RatLeq(x, y) == x[1] * y[2] <= y[1] * x[2]

----------------------------------------------------------------------------
(* The configuration a run starts from *)

OptimizerNames == {"None", "adam", "sgd", "rmsprop"}

\* scales of the cfg: a decay, a growth and a sign flip
Multipliers == {<<1, 2>>, <<2, 1>>, <<-1, 1>>}

LearningRates == {<<1, 1>>}

LrStepEntries == [threshold : 0..MaxThreshold, value : Multipliers]

RECURSIVE SeqsUpTo(_, _)
SeqsUpTo(S, n) ==
    IF n = 0 THEN {<<>>}
    ELSE LET shorter == SeqsUpTo(S, n - 1)
         IN shorter \cup {Append(s, x) : s \in {t \in shorter : Len(t) = n - 1}, x \in S}

\* line 148
MiniBatchSize(hp) == hp.batch \div hp.subdivisions

\* len(dataloader): DataLoader keeps the last, smaller batch
NumBatches(images, hp) == (images + MiniBatchSize(hp) - 1) \div MiniBatchSize(hp)

\* imgs.size(0) of batch i
BatchSize(images, hp, i) == Min(MiniBatchSize(hp), images - i * MiniBatchSize(hp))

\* lines 175-188: the optimizer the script constructs
MakeOptimizer(name) ==
    IF name \in {"None", "adam"} THEN "Adam"
    ELSE IF name = "sgd" THEN "SGD"
    ELSE Unbound

\* a counter that restarts with every epoch
BatchesDoneInEpoch(e, i) == i

\* line 200
BatchesDone(e, i) == NumBatches(dataset.train, hyperparams) * e + i

\* line 215
IsStepBatch(bd) == bd % hyperparams.subdivisions = 0

\* a threshold that already counts when it is reached
RECURSIVE ApplyLrStepsInclusive(_, _, _)
ApplyLrStepsInclusive(lr, steps, bd) ==
    IF steps = <<>> THEN lr
    ELSE ApplyLrStepsInclusive(IF bd >= Head(steps).threshold
                                 THEN RatMul(lr, Head(steps).value)
                                 ELSE lr,
                               Tail(steps), bd)

\* lines 224-226: the loop over lr_steps
RECURSIVE ApplyLrSteps(_, _, _)
ApplyLrSteps(lr, steps, bd) ==
    IF steps = <<>> THEN lr
    ELSE ApplyLrSteps(IF bd > Head(steps).threshold
                        THEN RatMul(lr, Head(steps).value)
                        ELSE lr,
                      Tail(steps), bd)

\* lines 218-226: the learning rate of an optimizer step
ScheduledLr(bd) ==
    IF bd < hyperparams.burn_in
    THEN RatMul(hyperparams.learning_rate, Rat(bd, hyperparams.burn_in))
    ELSE ApplyLrSteps(hyperparams.learning_rate, hyperparams.lr_steps, bd)

\* a counter that moves only with the optimizer
SeenAfterStepOnly(n, size, stepped) == IF stepped THEN n + size ELSE n

\* line 262
SeenAfter(n, size, stepped) == n + size

\* an interval counted from epoch 1
IsCheckpointEpochOneBased(e) == (e + 1) % args.checkpoint_interval = 0

\* line 273
IsCheckpointEpoch(e) == e % args.checkpoint_interval = 0

\* line 282
IsEvaluationEpoch(e) == e % args.evaluation_interval = 0

\* line 316
IsBetter(mAP, best) == mAP > best

\* line 198
InitialBest == 0

\* the first entry of the metrics list instead of the third
ComparedPrecision(metrics) == metrics[1][2]

\* line 315: mAP = evaluation_metrics[2][1]
ComparedAP(metrics) == metrics[3][2]

\* what _evaluate can return: None, or the four means (scaled to integers)
EvalOutcomes == {NoMetrics} \cup {<<MaxAP - m, MaxAP, m, 0>> : m \in 0..MaxAP}

\* lines 302-307
MetricsList(o) == << <<"precision", o[1]>>, <<"recall", o[2]>>,
                     <<"mAP", o[3]>>, <<"f1", o[4]>> >>

\* line 311: the events one evaluation pass sends to the sacred experiment
SacredEvents(sub, metrics, e) ==
    [k \in 1..Len(metrics) |->
        [tag |-> sub \o "." \o metrics[k][1], value |-> metrics[k][2], step |-> e + 1]]

\* logger.list_of_scalars_summary(pairs, step)
ScalarEvents(pairs, step) ==
    [k \in 1..Len(pairs) |-> [tag |-> pairs[k][1], value |-> pairs[k][2], step |-> step]]

\* lines 310-312: the events one evaluation pass sends to the tensorboard logger
\* (the call sits inside the loop over the metrics)
LoggerEvents(metrics, e) ==
    ScalarEvents(metrics, e) \o ScalarEvents(metrics, e)
        \o ScalarEvents(metrics, e) \o ScalarEvents(metrics, e)

\* lines 253-260
TrainLossEvents(bd) ==
    ScalarEvents(<< <<"train/iou_loss", Loss>>, <<"train/obj_loss", Loss>>,
                    <<"train/class_loss", Loss>>, <<"train/loss", Loss>> >>, bd)

----------------------------------------------------------------------------
(* Initial states: run() up to line 192 *)

HyperparamsOK(hp) == MiniBatchSize(hp) >= 1

Start(a, hp, d, s0) ==
    /\ args = a
    /\ hyperparams = hp
    /\ dataset = d
    /\ seen0 = s0
    /\ pc = "epoch"
    /\ error = NoError
    /\ optimizer = MakeOptimizer(hp.optimizer)
    /\ param_groups = <<hp.learning_rate>>
    /\ epoch = 0
    /\ batch_i = 0
    /\ subset = "training"
    /\ best_mAP = InitialBest
    /\ evaluation_metrics = <<>>
    /\ seen = s0
    /\ params = 0
    /\ grads = 0
    /\ forwardPasses = 0
    /\ backwardPasses = 0
    /\ batchLog = <<>>
    /\ stepLog = <<>>
    /\ evalLog = <<>>
    /\ checkpoints = <<>>
    /\ tbLog = <<>>
    /\ sacredLog = <<>>

DefaultSchedule ==
    [learning_rate |-> <<1, 1>>, burn_in |-> 1,
     lr_steps |-> <<[threshold |-> 1, value |-> <<1, 2>>]>>]

Hyperparams(batch, subdivisions, opt, sched) ==
    [batch |-> batch, subdivisions |-> subdivisions, optimizer |-> opt,
     learning_rate |-> sched.learning_rate, burn_in |-> sched.burn_in,
     lr_steps |-> sched.lr_steps]

\* runs that vary the batching, the accumulation and the optimizer
InitCadence ==
    \E e \in 1..MaxEpochs, s \in 1..MaxSubdivisions, b \in 1..MaxBatch,
       n \in 1..MaxTrain, v \in 1..MaxValid, s0 \in 0..MaxSeen, o \in OptimizerNames :
        /\ HyperparamsOK(Hyperparams(b, s, o, DefaultSchedule))
        /\ Start([epochs |-> e, checkpoint_interval |-> 1,
                  evaluation_interval |-> MaxEpochs],
                 Hyperparams(b, s, o, DefaultSchedule),
                 [train |-> n, valid |-> v], s0)

\* runs that vary the epochs and the two intervals, on two training images
\* and one validation image
InitIntervals ==
    \E e \in 1..MaxEpochs, ci \in 1..MaxInterval, ei \in 1..MaxInterval :
        Start([epochs |-> e, checkpoint_interval |-> ci, evaluation_interval |-> ei],
              Hyperparams(1, 1, "adam", DefaultSchedule),
              [train |-> 2, valid |-> 1], 0)

\* runs that vary the learning-rate schedule
InitSchedule ==
    \E lr \in LearningRates, bi \in 0..MaxBurnIn,
       steps \in SeqsUpTo(LrStepEntries, MaxLrSteps) :
        Start([epochs |-> 1, checkpoint_interval |-> 1, evaluation_interval |-> 1],
              Hyperparams(1, 1, "sgd",
                          [learning_rate |-> lr, burn_in |-> bi, lr_steps |-> steps]),
              [train |-> MaxThreshold + 2, valid |-> 1], 0)

Init == InitCadence \/ InitIntervals \/ InitSchedule

----------------------------------------------------------------------------
(* The steps of run() *)

Running == error = NoError

\* lines 193-198: the next epoch begins
StartEpoch ==
    /\ Running /\ pc = "epoch" /\ epoch < args.epochs
    /\ best_mAP' = InitialBest
    /\ batch_i' = 0
    /\ pc' = "train"
    /\ UNCHANGED <<config, error, param_groups, epoch, subset, evaluation_metrics,
                   seen, params, grads, forwardPasses, backwardPasses, batchLog,
                   stepLog, evalLog, checkpoints, tbLog, sacredLog>>

\* line 193: the epoch loop is exhausted
Finish ==
    /\ Running /\ pc = "epoch" /\ epoch = args.epochs
    /\ pc' = "done"
    /\ UNCHANGED <<config, error, param_groups, epoch, batch_i, subset, best_mAP,
                   evaluation_metrics, seen, params, grads, forwardPasses,
                   backwardPasses, batchLog, stepLog, evalLog, checkpoints, tbLog,
                   sacredLog>>

\* lines 199-262: one iteration of the training loop
TrainBatch ==
    /\ Running /\ pc = "train"
    /\ batch_i < NumBatches(dataset.train, hyperparams)
    /\ LET bd == BatchesDone(epoch, batch_i)
           size == BatchSize(dataset.train, hyperparams, batch_i)
           lr == ScheduledLr(bd)
           lrEvent == [tag |-> "train/learning_rate", value |-> lr, step |-> bd]
       IN
        /\ forwardPasses' = forwardPasses + 1
        /\ backwardPasses' = backwardPasses + 1
        /\ IF IsStepBatch(bd) /\ optimizer = Unbound
           THEN \* line 230: UnboundLocalError, after the rate was logged
                /\ error' = "UnboundLocalError: optimizer"
                /\ grads' = grads + 1
                /\ tbLog' = Append(tbLog, lrEvent)
                /\ UNCHANGED <<param_groups, params, stepLog, seen, batchLog, batch_i>>
           ELSE
                /\ IF IsStepBatch(bd)
                   THEN /\ param_groups' = [g \in DOMAIN param_groups |-> lr]
                        /\ params' = params + 1
                        /\ grads' = 0
                        /\ stepLog' = Append(stepLog,
                              [batches_done |-> bd,
                               lr |-> [g \in DOMAIN param_groups |-> lr],
                               accumulated |-> grads + 1])
                        /\ tbLog' = tbLog \o <<lrEvent>> \o TrainLossEvents(bd)
                   ELSE /\ grads' = grads + 1
                        /\ tbLog' = tbLog \o TrainLossEvents(bd)
                        /\ UNCHANGED <<param_groups, params, stepLog>>
                /\ seen' = SeenAfter(seen, size, IsStepBatch(bd))
                /\ batchLog' = Append(batchLog,
                      [batches_done |-> bd, size |-> size, stepped |-> IsStepBatch(bd)])
                /\ batch_i' = batch_i + 1
                /\ UNCHANGED error
    /\ UNCHANGED <<config, pc, epoch, subset, best_mAP, evaluation_metrics,
                   evalLog, checkpoints, sacredLog>>

\* lines 264-282: the training loop is exhausted; log, checkpoint, go on
SaveProgress ==
    /\ Running /\ pc = "train"
    /\ batch_i = NumBatches(dataset.train, hyperparams)
    /\ sacredLog' = Append(sacredLog,
          [tag |-> "train-loss", value |-> Loss, step |-> epoch + 1])
    /\ checkpoints' =
          IF IsCheckpointEpoch(epoch)
          THEN Append(checkpoints, [path |-> "yolov3_ckpt", epoch |-> epoch])
          ELSE checkpoints
    /\ IF IsEvaluationEpoch(epoch)
       THEN /\ pc' = "evaluate"
            /\ subset' = "training"
            /\ epoch' = epoch
       ELSE /\ pc' = "epoch"
            /\ epoch' = epoch + 1
            /\ UNCHANGED subset
    /\ UNCHANGED <<config, error, param_groups, batch_i, best_mAP,
                   evaluation_metrics, seen, params, grads, forwardPasses,
                   backwardPasses, batchLog, stepLog, evalLog, tbLog>>

\* the metrics line 315 reads after an evaluation that returned o
MetricsRead(o) == IF o # NoMetrics THEN MetricsList(o) ELSE evaluation_metrics

\* lines 285-319: one iteration of the loop over the two subsets
Evaluate(o) ==
    /\ Running /\ pc = "evaluate"
    /\ evalLog' = Append(evalLog, [epoch |-> epoch, subset |-> subset, result |-> o])
    /\ evaluation_metrics' = IF o # NoMetrics THEN MetricsList(o) ELSE evaluation_metrics
    /\ sacredLog' = IF o # NoMetrics
                    THEN sacredLog \o SacredEvents(subset, MetricsList(o), epoch)
                    ELSE sacredLog
    /\ tbLog' = IF o # NoMetrics
                THEN tbLog \o LoggerEvents(MetricsList(o), epoch)
                ELSE tbLog
    /\ IF subset = "training"
       THEN /\ subset' = "validation"
            /\ UNCHANGED <<pc, error, checkpoints>>
       ELSE IF MetricsRead(o) = <<>>
       THEN \* line 315: UnboundLocalError
            /\ error' = "UnboundLocalError: evaluation_metrics"
            /\ UNCHANGED <<pc, subset, checkpoints>>
       ELSE /\ checkpoints' =
                  IF IsBetter(ComparedAP(MetricsRead(o)), best_mAP)
                  THEN Append(checkpoints, [path |-> "best_ckpt", epoch |-> epoch])
                  ELSE checkpoints
            /\ pc' = "posteval"
            /\ UNCHANGED <<subset, error>>
    /\ UNCHANGED <<config, param_groups, epoch, batch_i, best_mAP, seen, params,
                   grads, forwardPasses, backwardPasses, batchLog, stepLog>>

\* lines 322-341: the two forward-only loops after the evaluation
PostEvaluation ==
    /\ Running /\ pc = "posteval"
    /\ forwardPasses' = forwardPasses + NumBatches(dataset.train, hyperparams)
                                      + NumBatches(dataset.valid, hyperparams)
    /\ sacredLog' = Append(sacredLog,
          [tag |-> "val-loss", value |-> Loss, step |-> epoch + 1])
    /\ epoch' = epoch + 1
    /\ pc' = "epoch"
    /\ UNCHANGED <<config, error, param_groups, batch_i, subset, best_mAP,
                   evaluation_metrics, seen, params, grads, backwardPasses,
                   batchLog, stepLog, evalLog, checkpoints, tbLog>>

Next ==
    \/ StartEpoch
    \/ Finish
    \/ TrainBatch
    \/ SaveProgress
    \/ \E o \in EvalOutcomes : Evaluate(o)
    \/ PostEvaluation

Spec == Init /\ [][Next]_vars

----------------------------------------------------------------------------
(* Observations of a run, read off the logs *)

Last(q) == q[Len(q)]

Count(q, P(_)) == Cardinality({k \in DOMAIN q : P(q[k])})

RECURSIVE SumSizes(_)
SumSizes(log) == IF log = <<>> THEN 0 ELSE Head(log).size + SumSizes(Tail(log))

SetMax(S) == CHOOSE x \in S : \A y \in S : y <= x

EpochCheckpoints(e) ==
    Count(checkpoints, LAMBDA c : c.path = "yolov3_ckpt" /\ c.epoch = e)

BestWrites(e) ==
    Count(checkpoints, LAMBDA c : c.path = "best_ckpt" /\ c.epoch = e)

Evaluations(e, sub) ==
    Count(evalLog, LAMBDA c : c.epoch = e /\ c.subset = sub)

\* epoch e has gone through the save-progress block
SaveReached(e) == e < epoch \/ (e = epoch /\ pc \in {"evaluate", "posteval"})

\* epoch e has gone through the loop over the two subsets
EvaluateReached(e) == e < epoch \/ (e = epoch /\ pc = "posteval")

IsValidationResult(k) ==
    evalLog[k].subset = "validation" /\ evalLog[k].result # NoMetrics

\* the best validation mAP of the evaluations before the k-th call, 0 if none
PreviousBest(k) ==
    SetMax({0} \cup {evalLog[j].result[3] : j \in {i \in 1..(k - 1) : IsValidationResult(i)}})

----------------------------------------------------------------------------
(* C1: best_ckpt.pth is overwritten at an evaluated epoch iff that epoch's *)
(* validation mAP strictly exceeds the best validation mAP of the earlier  *)
(* evaluated epochs of the run (0 before the first).  Stated for the       *)
(* validation evaluations that returned metrics.                           *)
C1_BestIffExceedsRunBest ==
    \A k \in DOMAIN evalLog :
        IsValidationResult(k) =>
            (BestWrites(evalLog[k].epoch) >= 1 <=> evalLog[k].result[3] > PreviousBest(k))

(* C2: over the global sequence of processed training batches, every       *)
(* window of `subdivisions` consecutive batches holds exactly one optimizer *)
(* step followed by a gradient reset, and the parameters change only while *)
(* a batch whose global index is a multiple of `subdivisions` is processed. *)
C2_Windows ==
    \A i \in 1..(Len(batchLog) - hyperparams.subdivisions + 1) :
        Cardinality({k \in i..(i + hyperparams.subdivisions - 1) : batchLog[k].stepped}) = 1

C2_ChangeOnlyAtBoundary ==
    /\ (params' # params) =>
          /\ Len(batchLog') = Len(batchLog) + 1
          /\ Len(batchLog) % hyperparams.subdivisions = 0
          /\ params' = params + 1
          /\ grads' = 0
    /\ (batchLog' # batchLog) =>
          (Last(batchLog').stepped <=> params' # params)

C2_StepOncePerSubdivisions == []C2_Windows /\ [][C2_ChangeOnlyAtBoundary]_vars

C2_Witness ==
    /\ hyperparams.subdivisions = 2
    /\ NumBatches(dataset.train, hyperparams) = 3
    /\ Len(batchLog) = 6
    /\ params = 3
    /\ pc = "done"

(* C3: model.seen equals its initial value plus the sizes of the training  *)
(* batches processed so far, whatever `subdivisions` is, and nothing else  *)
(* (evaluation, the loops after it) changes it.                            *)
C3_SeenIsSumOfBatchSizes == seen = seen0 + SumSizes(batchLog)

C3_Witness ==
    /\ hyperparams.subdivisions = 2
    /\ seen0 > 0
    /\ Len(batchLog) >= 4
    /\ \E k \in DOMAIN batchLog : ~batchLog[k].stepped /\ batchLog[k].size = 1
    /\ \E k \in DOMAIN batchLog : batchLog[k].size = 2
    /\ evalLog # <<>>
    /\ pc = "done"

(* C4: the rate written into every parameter group at an optimizer step is *)
(* base_lr * batches_done / burn_in below burn_in, and otherwise base_lr   *)
(* times the multipliers of exactly the lr_steps entries whose threshold   *)
(* is strictly below batches_done; from burn_in onward it is non-increasing *)
(* under the stated condition on the multipliers.                          *)
RECURSIVE ProductOver(_)
ProductOver(K) ==
    IF K = {} THEN <<1, 1>>
    ELSE LET k == CHOOSE x \in K : TRUE
         IN RatMul(hyperparams.lr_steps[k].value, ProductOver(K \ {k}))

ExpectedLr(bd) ==
    IF bd < hyperparams.burn_in
    THEN Rat(hyperparams.learning_rate[1] * bd, hyperparams.learning_rate[2] * hyperparams.burn_in)
    ELSE RatMul(hyperparams.learning_rate,
                ProductOver({k \in DOMAIN hyperparams.lr_steps :
                                hyperparams.lr_steps[k].threshold < bd}))

RateAsScheduled ==
    /\ \A k \in DOMAIN stepLog :
          \A g \in DOMAIN stepLog[k].lr : stepLog[k].lr[g] = ExpectedLr(stepLog[k].batches_done)
    /\ stepLog # <<>> => param_groups = Last(stepLog).lr

NonIncreasingAfterBurnIn ==
    \A i, j \in DOMAIN stepLog :
        (i < j /\ stepLog[i].batches_done >= hyperparams.burn_in) =>
            RatLeq(stepLog[j].lr[1], stepLog[i].lr[1])

MultipliersAtMostOne ==
    \A k \in DOMAIN hyperparams.lr_steps : RatLeq(hyperparams.lr_steps[k].value, <<1, 1>>)

NothingNegative ==
    /\ hyperparams.learning_rate[1] >= 0
    /\ \A k \in DOMAIN hyperparams.lr_steps : hyperparams.lr_steps[k].value[1] >= 0

\* the claim as stated: multipliers <= 1 suffice
C4_AsStated ==
    /\ RateAsScheduled
    /\ MultipliersAtMostOne => NonIncreasingAfterBurnIn

\* amended: base_lr >= 0 and every multiplier in [0, 1]
C4_ScheduledRate ==
    /\ RateAsScheduled
    /\ (MultipliersAtMostOne /\ NothingNegative) => NonIncreasingAfterBurnIn

C4_Witness ==
    /\ hyperparams.burn_in = 2
    /\ Len(hyperparams.lr_steps) = 2
    /\ hyperparams.lr_steps[1].threshold = 2
    /\ hyperparams.lr_steps[2].threshold = 2
    /\ MultipliersAtMostOne /\ NothingNegative
    /\ Len(stepLog) = 4
    /\ stepLog[2].lr = <<<<1, 2>>>>
    /\ stepLog[3].lr = <<<<1, 1>>>>
    /\ param_groups = <<<<1, 4>>>>

(* C5: for every epoch e that has gone through the save-progress block,    *)
(* yolov3_ckpt_<e>.pth has been written (once) iff                         *)
(* e % checkpoint_interval = 0; no other epoch-named checkpoint exists.    *)
C5_CheckpointIffInterval ==
    \A e \in 0..(args.epochs - 1) :
        EpochCheckpoints(e) =
            IF SaveReached(e) /\ e % args.checkpoint_interval = 0 THEN 1 ELSE 0

C5_Witness ==
    /\ args.epochs = 2
    /\ args.checkpoint_interval = 2
    /\ pc = "done"
    /\ EpochCheckpoints(0) = 1
    /\ EpochCheckpoints(1) = 0

(* C6: an epoch is evaluated iff e % evaluation_interval = 0, once per     *)
(* subset, and each of the four means of a pass reaches the sacred         *)
(* experiment and the tensorboard logger with the same step number.        *)
(* Stated for the passes that returned metrics.                            *)
MetricNames == <<"precision", "recall", "mAP", "f1">>

ForwardedWithMatchingStep(pass) ==
    \A m \in DOMAIN MetricNames :
        \E x \in DOMAIN sacredLog, y \in DOMAIN tbLog :
            /\ sacredLog[x].tag = pass.subset \o "." \o MetricNames[m]
            /\ sacredLog[x].value = pass.result[m]
            /\ tbLog[y].tag = MetricNames[m]
            /\ tbLog[y].value = pass.result[m]
            /\ tbLog[y].step = sacredLog[x].step

C6_EvaluationForwardedToBothSinks ==
    /\ \A e \in 0..(args.epochs - 1) : \A sub \in {"training", "validation"} :
          EvaluateReached(e) =>
              Evaluations(e, sub) = IF e % args.evaluation_interval = 0 THEN 1 ELSE 0
    /\ \A k \in DOMAIN evalLog :
          evalLog[k].result # NoMetrics => ForwardedWithMatchingStep(evalLog[k])

(* C7: with an unrecognized optimizer name no forward or backward pass of  *)
(* a training batch ever happens: the run fails before the first batch.    *)
C7_UnknownOptimizerFailsFast ==
    hyperparams.optimizer \notin {"None", "adam", "sgd"} =>
        forwardPasses = 0 /\ backwardPasses = 0

(* C8: epochs = 1, both intervals 1, two training images, one validation   *)
(* image: the finished run has written exactly one epoch checkpoint, has   *)
(* evaluated each subset exactly once and has written best_ckpt at least   *)
(* once.                                                                   *)
Scenario ==
    /\ args = [epochs |-> 1, checkpoint_interval |-> 1, evaluation_interval |-> 1]
    /\ dataset = [train |-> 2, valid |-> 1]

ScenarioResult ==
    /\ Count(checkpoints, LAMBDA c : c.path = "yolov3_ckpt") = 1
    /\ Count(evalLog, LAMBDA c : c.subset = "training") = 1
    /\ Count(evalLog, LAMBDA c : c.subset = "validation") = 1
    /\ Count(checkpoints, LAMBDA c : c.path = "best_ckpt") >= 1

\* the claim as stated: for every outcome of the evaluation
C8_AsStated == (Scenario /\ pc = "done") => ScenarioResult

\* amended: for the outcomes whose validation mAP is above zero
ValidationAPPositive ==
    \E k \in DOMAIN evalLog : IsValidationResult(k) /\ evalLog[k].result[3] > 0

C8_EndToEnd == (Scenario /\ pc = "done" /\ ValidationAPPositive) => ScenarioResult

C8_Witness ==
    /\ Scenario /\ pc = "done" /\ ValidationAPPositive
    /\ evalLog[1].result = NoMetrics
    /\ Len(checkpoints) = 2

(* C9: at every optimizer.step() the number of backward passes since the   *)
(* previous gradient reset (or the start of the run) equals `subdivisions`. *)
C9_StepAppliesFullAccumulation ==
    \A k \in DOMAIN stepLog : stepLog[k].accumulated = hyperparams.subdivisions

(* C10: when the validation evaluation of an epoch returns no metrics,     *)
(* nothing is compared: best_ckpt.pth is not written at that epoch and the *)
(* run does not fail on an undefined metrics value.                        *)
C10_NoMetricsNoBestNoFailure ==
    \A k \in DOMAIN evalLog :
        (evalLog[k].subset = "validation" /\ evalLog[k].result = NoMetrics) =>
            /\ BestWrites(evalLog[k].epoch) = 0
            /\ error # "UnboundLocalError: evaluation_metrics"

====
